---- MODULE Spec2Model ----
(***************************************************************************)
(* Model of the PDF separator: the worker process running                  *)
(* PDFProcessor.run / _process_pdf (src/src/core/pdf_processor.py) and the *)
(* host (src/src/ui/main_window.py) that owns the cancellation flag.       *)
(*                                                                         *)
(* The recognizer and the detectors are applied to a document whose        *)
(* per-page detection results are fixed when the run starts: caseDet[p] is *)
(* what _detect_case_number returns for page p, ctrDet[p] what             *)
(* _detect_page_number returns.                                            *)
(***************************************************************************)
EXTENDS Integers, Sequences, FiniteSets, TLC

\* Largest number of pages of a generated document.
MaxPages == 2
\* Number of chunks/rows the model keeps of generated_files_data and of the
\* written files; later ones are emitted but not recorded (log_full).
MaxChunks == 3
\* The cursor is followed down to -MaxBack; below that the run is cut.
MaxBack == 2
\* Length of the raw texts that are enumerated.
MaxRawLen == 3
\* Number of lines of a list handed to a detector.
MaxLines == 2

VARIABLES
    inputExists,           \* self.input_path.exists()
    ocrReady,              \* whether self._ocr.initialize() succeeds
    totalPages,            \* len(doc)
    caseDet,               \* page -> result of _detect_case_number
    ctrDet,                \* page -> result of _detect_page_number
    pc,                    \* position of the worker ("none": no process yet)
    current_index,
    scan_index,
    carried_case,
    carried_page,
    pattern_found,
    chunk_case_num,
    chunk_start_page,
    chunk_end_page,
    final_end_idx,
    generated_files_data,  \* summary rows <<out_name, start 1-based, end 1-based>>
    chunks,                \* calls of _save_chunk, with the state of the file
    log_full,              \* a chunk was emitted beyond MaxChunks
    summary,               \* content of summary.xlsx
    emitted,               \* set of events put on status_queue
    lastEvent,             \* the last event put on status_queue
    outcome,               \* how the scan ended
    cancel_seen,           \* a loop check has read the stop event as set
    stop_event,            \* multiprocessing.Event shared with the host
    host,                  \* "open", "polling" (check_process_status in join),
                           \* "joining" (closeEvent in join), "closed"
    config,                \* self.config
    ocr_calls,             \* calls of extract_text made for the page under scan
    progress,              \* numerator of the fraction of the last 'progress' event
    queue,                 \* process_queue: the 'complete' and 'error' events put on
                           \* it and not yet handled (every other event is only shown)
    timer,                 \* status_timer is active
    screen,                \* page shown by stacked_widget
    selected_file,         \* self.selected_file is set
    selected_folder,       \* self.selected_folder is set
    continue_btn,          \* continue_btn is enabled
    start_btn,             \* start_btn is enabled
    fn,                    \* the function applied on its own ("none" during a run)
    fn_in,                 \* its input
    fn_out,                \* its result
    fn_pc                  \* "idle", "call", "retry", "returned", "raised"

docVars == <<inputExists, ocrReady, totalPages, caseDet, ctrDet>>
scanVars == <<current_index, scan_index, carried_case, carried_page, pattern_found,
              chunk_case_num, chunk_start_page, chunk_end_page, final_end_idx>>
outVars == <<generated_files_data, chunks, log_full, summary>>
evVars == <<emitted, lastEvent, queue>>
pageVars == <<config, ocr_calls, progress>>
uiVars == <<timer, screen, selected_file, selected_folder, continue_btn, start_btn>>
runVars == <<docVars, scanVars, outVars, evVars, pageVars, uiVars, pc, outcome,
             cancel_seen, stop_event, host>>
fnVars == <<fn, fn_in, fn_out, fn_pc>>
vars == <<runVars, fnVars>>

----------------------------------------------------------------------------
\* Values

\* Python None, for strings.
None == "None"
\* Python None, for a page counter text.
NoCounter == <<"None", 0, 0>>

\* "Page n of m": a counter text as _detect_page_number returns it.
PageOf(n, m) == <<"of", n, m>>
\* "Page n OF m": accepted by page_regex (re.IGNORECASE), returned unchanged.
PageOF(n, m) == <<"OF", n, m>>

\* Normalized case numbers a page can yield.
CaseTexts == {None, "I-55-1111"}
\* Counter texts a page can yield.
CounterTexts == {NoCounter, PageOf(1, 1), PageOf(1, 2), PageOf(2, 1), PageOf(3, 1),
                 PageOF(1, 2)}

\* re.search(r"([0-9]+)\s*of\s*([0-9]+)", s): whether it matches, and its groups.
ReMatches(s) == s[1] = "of"
ReGroup1(s) == s[2]
ReGroup2(s) == s[3]

Min(a, b) == IF a < b THEN a ELSE b

\* Truthiness of an optional string / optional counter text.
IsCase(c) == c # None
IsCounter(s) == s # NoCounter

\* doc[page_idx]: PyMuPDF adds the page count to a negative index until it is
\* non-negative.
PageAt(i) == i % totalPages

\* Events of the status queue.
Ev(type, msg) == [type |-> type, msg |-> msg]
EvStart == Ev("info", "Starting processing")
EvScanChunk == Ev("progress", "Scanning chunks")
EvScanPage == Ev("progress", "Scanning page")
EvSaved == Ev("info", "Saved")
EvSummary == Ev("info", "Summary saved")
EvSummaryFailed == Ev("error", "Failed to save Excel summary")
EvError == Ev("error", "exception")
EvComplete == Ev("complete", "Processing completed successfully.")
EvCancelled == Ev("info", "Processing cancelled.")
NoEvent == Ev("none", "none")

\* summary.xlsx: not written, or written with these rows.
NoSummary == [written |-> FALSE, rows |-> <<>>]

----------------------------------------------------------------------------
\* Pure steps of _process_pdf

\* Mutant: the case detector runs on every page, carried case or not.
DetectedCaseAlways(carried, page) == caseDet[PageAt(page)]
\* detected_case = None if carried_case else self._detect_case_number(...)
DetectedCase(carried, page) == IF IsCase(carried) THEN None ELSE caseDet[PageAt(page)]
\* detected_page = None if carried_page else self._detect_page_number(...)
DetectedPage(carried, page) == IF IsCounter(carried) THEN NoCounter ELSE ctrDet[PageAt(page)]
\* current_case = carried_case or detected_case
CurrentCase(carried, detected) == IF IsCase(carried) THEN carried ELSE detected
\* current_page_str = carried_page or detected_page
CurrentPageStr(carried, detected) == IF IsCounter(carried) THEN carried ELSE detected
\* if detected_case and not detected_page: carried_case = detected_case
UpdateCarriedCase(carried, dcase, dpage) ==
    IF IsCase(dcase) /\ ~IsCounter(dpage) THEN dcase ELSE carried
\* if detected_page and not detected_case: carried_page = detected_page
UpdateCarriedPage(carried, dcase, dpage) ==
    IF IsCounter(dpage) /\ ~IsCase(dcase) THEN dpage ELSE carried
\* Mutant: a counter that matches is a boundary, case or no case.
PatternFoundWithoutCase(ccase, cpage) == IsCounter(cpage) /\ ReMatches(cpage)
\* if current_case and current_page_str: m = re.search(...); if m:
PatternFound(ccase, cpage) == IsCase(ccase) /\ IsCounter(cpage) /\ ReMatches(cpage)

\* Mutant: the scan goes on two pages further.
NextScanIndexSkipping(i) == i + 2
\* scan_index += 1
NextScanIndex(i) == i + 1
\* Mutant: the carried case is kept when the boundary has resolved.
KeepCarriedCase(carried) == carried
\* carried_case = None, after the inner loop found the boundary
ResetCarriedCase(carried) == None
\* carried_page = None, after the inner loop found the boundary
ResetCarriedPage(carried) == NoCounter
\* Mutant: the chunk starts at the page where the pattern was found.
StartIdxAtAnchor == scan_index
\* start_idx = current_index
StartIdx == current_index
\* calculated_end = scan_index + (chunk_end_page - chunk_start_page) + 1
CalculatedEnd(scan, startPage, endPage) == scan + (endPage - startPage) + 1
\* Mutant: the calculated end is not clamped to total_pages.
FinalEndIdxUnclamped(scan, startPage, endPage) == CalculatedEnd(scan, startPage, endPage)
\* final_end_idx = min(calculated_end, total_pages)
FinalEndIdx(scan, startPage, endPage) == Min(CalculatedEnd(scan, startPage, endPage), totalPages)
\* Mutant: every chunk gets the name of a chunk without a case.
OutNameAlwaysUnknown(caseNum, start, finalEnd) ==
    <<"Unknown_pages_", start + 1, "-", finalEnd, ".pdf">>
\* out_name
OutName(caseNum, start, finalEnd) ==
    IF IsCase(caseNum) THEN <<caseNum, ".pdf">>
    ELSE <<"Unknown_pages_", start + 1, "-", finalEnd, ".pdf">>
\* Mutant: the row has the 0-based start of the chunk.
SummaryRowZeroBased(name, start, finalEnd) == <<name, start, finalEnd>>
\* the row appended to generated_files_data
SummaryRow(name, start, finalEnd) == <<name, start + 1, finalEnd>>
\* Mutant: the summary loop misses the last row.
SummaryRowsDropLast(data) == SubSeq(data, 1, Len(data) - 1)
\* rows written by _save_summary_excel
SummaryRows(data) == data
\* Mutant: run() emits 'complete' without looking at the stop event.
FinalEventAlwaysComplete(stopped) == EvComplete
\* Mutant: run() emits the cancelled message exactly when the stop event is clear.
FinalEventInverted(stopped) == IF stopped THEN EvComplete ELSE EvCancelled
\* the terminal event of run(): 'complete' unless the stop event is set
FinalEvent(stopped) == IF ~stopped THEN EvComplete ELSE EvCancelled

\* The events check_process_status handles itself; it forwards every other
\* event to processor_callback, which shows it.
Handled(e) == e.type \in {"complete", "error"}

Put(q, e) == IF Handled(e) THEN Append(q, e) ELSE q

Emit(e) == /\ emitted' = emitted \cup {e}
           /\ lastEvent' = e
           /\ queue' = Put(queue, e)

----------------------------------------------------------------------------
\* Initial states

\* Documents up to MaxPages pages, every assignment of detections to pages.
SmallDocs ==
    /\ totalPages \in 0..MaxPages
    /\ caseDet \in [0..(totalPages - 1) -> CaseTexts]
    /\ ctrDet \in [0..(totalPages - 1) -> CounterTexts]

\* The 10-page document whose page index 4 alone yields case "55-1111"
\* (normalized "I-55-1111") and counter "Page 1 of 6".
ScenarioCases == [p \in 0..9 |-> IF p = 4 THEN "I-55-1111" ELSE None]
ScenarioCounters == [p \in 0..9 |-> IF p = 4 THEN PageOf(1, 6) ELSE NoCounter]
ScenarioDoc ==
    /\ totalPages = Cardinality(DOMAIN ScenarioCases)
    /\ caseDet = ScenarioCases
    /\ ctrDet = ScenarioCounters
IsScenario == inputExists /\ ocrReady /\ caseDet = ScenarioCases /\ ctrDet = ScenarioCounters

\* A three-page document: "Page 1 of 2" with a case on page 0, "Page 1 OF 2"
\* alone on page 1, "Page 3 of 1" with a case on page 2.
RewindCases == [p \in 0..2 |-> IF p = 1 THEN None ELSE "I-55-1111"]
RewindCounters == [p \in 0..2 |-> IF p = 0 THEN PageOf(1, 2)
                                   ELSE IF p = 1 THEN PageOF(1, 2) ELSE PageOf(3, 1)]
RewindDoc ==
    /\ totalPages = Cardinality(DOMAIN RewindCases)
    /\ caseDet = RewindCases
    /\ ctrDet = RewindCounters

\* A four-page document: case "I-55-1111" alone on page 0, case "I-77-2222"
\* alone on page 1 and with "Page 1 of 1" on page 2, case "I-55-1111" with
\* "Page 1 of 1" on page 3.
TwoCaseCases == [p \in 0..3 |-> IF p \in {1, 2} THEN "I-77-2222" ELSE "I-55-1111"]
TwoCaseCounters == [p \in 0..3 |-> IF p \in {2, 3} THEN PageOf(1, 1) ELSE NoCounter]
TwoCaseDoc ==
    /\ totalPages = Cardinality(DOMAIN TwoCaseCases)
    /\ caseDet = TwoCaseCases
    /\ ctrDet = TwoCaseCounters
\* The processing options of AppConfig._load_defaults, factors in tenths.
DefaultConfig == [dpi |-> 200, upscale |-> 15, contrast |-> 12, sharpen |-> 15]

\* The fields and locals of a PDFProcessor that has not run yet, and the
\* events it has put.
ProcessorInit ==
    /\ current_index = 0
    /\ scan_index = 0
    /\ carried_case = None
    /\ carried_page = NoCounter
    /\ pattern_found = FALSE
    /\ chunk_case_num = None
    /\ chunk_start_page = 0
    /\ chunk_end_page = 0
    /\ final_end_idx = 0
    /\ generated_files_data = <<>>
    /\ chunks = <<>>
    /\ log_full = FALSE
    /\ summary = NoSummary
    /\ emitted = {}
    /\ lastEvent = NoEvent
    /\ outcome = "running"
    /\ cancel_seen = FALSE
    /\ config = DefaultConfig
    /\ ocr_calls = <<>>
    /\ progress = 0

\* The worker and the host when the worker process has just been started.
RunInit ==
    /\ pc = "start"
    /\ ProcessorInit
    /\ queue = <<>>
    /\ stop_event = FALSE
    /\ host = "open"
    /\ timer = TRUE
    /\ screen = "processing"
    /\ selected_file = TRUE
    /\ selected_folder = TRUE
    /\ continue_btn = TRUE
    /\ start_btn = TRUE

\* The window as MainWindow.__init__ leaves it: the upload screen, nothing
\* selected, no worker process.
AppInit ==
    /\ pc = "none"
    /\ ProcessorInit
    /\ queue = <<>>
    /\ stop_event = FALSE
    /\ host = "open"
    /\ timer = FALSE
    /\ screen = "upload"
    /\ selected_file = FALSE
    /\ selected_folder = FALSE
    /\ continue_btn = FALSE
    /\ start_btn = FALSE

\* No function is applied on its own.
FnIdle == fn = "none" /\ fn_in = <<>> /\ fn_out = <<>> /\ fn_pc = "idle"

\* No document is given.
NoDoc == totalPages = 0 /\ caseDet = <<>> /\ ctrDet = <<>>

Init ==
    /\ \/ inputExists = TRUE /\ ocrReady = TRUE /\ (SmallDocs \/ ScenarioDoc \/ RewindDoc \/ TwoCaseDoc)
       \/ /\ inputExists \in BOOLEAN
          /\ ocrReady = ~inputExists
          /\ NoDoc
    /\ RunInit
    /\ FnIdle

----------------------------------------------------------------------------
\* The worker: PDFProcessor.run

\* Mutant: run() opens the document without the test of the input path.
RunStartNoInputCheck ==
    /\ pc = "start"
    /\ IF ~ocrReady
       THEN /\ Emit(EvError)
            /\ pc' = "done"
            /\ outcome' = "error"
       ELSE /\ Emit(EvStart)
            /\ pc' = "outer"
            /\ outcome' = outcome
    /\ UNCHANGED <<fnVars, uiVars, pageVars, docVars, scanVars, outVars, cancel_seen, stop_event, host>>
\* run() up to the first test of the outer loop: initialize the engine, emit
\* the start event, check the input, open the document.
RunStart ==
    /\ pc = "start"
    /\ IF ~ocrReady
       THEN /\ Emit(EvError)
            /\ pc' = "done"
            /\ outcome' = "error"
       ELSE IF ~inputExists
       THEN /\ emitted' = emitted \cup {EvStart, EvError}
            /\ lastEvent' = EvError
            /\ queue' = Put(Put(queue, EvStart), EvError)
            /\ pc' = "done"
            /\ outcome' = "error"
       ELSE /\ Emit(EvStart)
            /\ pc' = "outer"
            /\ outcome' = outcome
    /\ UNCHANGED <<fnVars, uiVars, pageVars, docVars, scanVars, outVars, cancel_seen, stop_event, host>>

\* while current_index < total_pages: if stop: break; emit progress; reset the
\* chunk's locals.
OuterLoop ==
    /\ pc = "outer"
    /\ IF current_index < totalPages
       THEN IF stop_event
            THEN /\ pc' = "close"
                 /\ outcome' = "cancelled"
                 /\ cancel_seen' = TRUE
                 /\ UNCHANGED <<scanVars, evVars, progress>>
            ELSE /\ Emit(EvScanChunk)
                 /\ progress' = current_index
                 /\ scan_index' = current_index
                 /\ pattern_found' = FALSE
                 /\ chunk_case_num' = None
                 /\ chunk_start_page' = 0
                 /\ chunk_end_page' = 0
                 /\ pc' = "inner"
                 /\ UNCHANGED <<current_index, carried_case, carried_page, final_end_idx,
                                outcome, cancel_seen>>
       ELSE /\ pc' = "close"
            /\ outcome' = "exhausted"
            /\ UNCHANGED <<scanVars, evVars, progress, cancel_seen>>
    /\ UNCHANGED <<fnVars, uiVars, config, ocr_calls, docVars, outVars, stop_event, host>>

\* Mutant: the inner loop does not test the stop event.
InnerLoopNoStopCheck ==
    /\ pc = "inner"
    /\ IF scan_index < totalPages
       THEN /\ pc' = "emit"
            /\ UNCHANGED <<outcome, cancel_seen>>
       ELSE /\ pc' = "close"
            /\ outcome' = IF stop_event THEN "cancelled" ELSE "no_boundary"
            /\ UNCHANGED cancel_seen
    /\ UNCHANGED <<fnVars, uiVars, pageVars, docVars, scanVars, outVars, evVars, stop_event, host>>
\* while scan_index < total_pages: if stop: break. Leaving the loop without a
\* pattern ends the outer loop too (if not pattern_found: ... break).
InnerLoop ==
    /\ pc = "inner"
    /\ IF scan_index < totalPages
       THEN IF stop_event
            THEN /\ pc' = "close"
                 /\ outcome' = "cancelled"
                 /\ cancel_seen' = TRUE
            ELSE /\ pc' = "emit"
                 /\ UNCHANGED <<outcome, cancel_seen>>
       ELSE /\ pc' = "close"
            /\ outcome' = IF stop_event THEN "cancelled" ELSE "no_boundary"
            /\ UNCHANGED cancel_seen
    /\ UNCHANGED <<fnVars, uiVars, pageVars, docVars, scanVars, outVars, evVars, stop_event, host>>

\* time.sleep(0.05); the 'progress' event of the page.
PageProgress ==
    /\ pc = "emit"
    /\ Emit(EvScanPage)
    /\ progress' = scan_index
    /\ ocr_calls' = <<>>
    /\ pc' = "ocr"
    /\ UNCHANGED <<fnVars, uiVars, config, docVars, scanVars, outVars, outcome, cancel_seen,
                   stop_event, host>>

\* A call of extract_text: the page, the crop and the config it is given.
Call(page, crop, cfg) == [page |-> page, crop |-> crop, cfg |-> cfg]
\* upscale of the config given for the right crop, in tenths
RightUpscale == 10
\* Mutant: the right crop is recognized with the config as it is.
RightConfigAsConfigured(cfg) == cfg
\* {**self.config, 'upscale': 1}
RightConfig(cfg) == [cfg EXCEPT !.upscale = RightUpscale]

\* _get_footer_crops; extract_text(left_img, self.config)
RecognizeLeft ==
    /\ pc = "ocr"
    /\ ocr_calls' = Append(ocr_calls, Call(scan_index, "left", config))
    /\ pc' = "ocr2"
    /\ UNCHANGED <<fnVars, uiVars, config, progress, docVars, scanVars, outVars, evVars, outcome,
                   cancel_seen, stop_event, host>>

\* extract_text(right_img, {**self.config, 'upscale': 1}): a new dict,
\* self.config is as before.
RecognizeRight ==
    /\ pc = "ocr2"
    /\ ocr_calls' = Append(ocr_calls, Call(scan_index, "right", RightConfig(config)))
    /\ config' = config
    /\ pc' = "page"
    /\ UNCHANGED <<fnVars, uiVars, progress, docVars, scanVars, outVars, evVars, outcome,
                   cancel_seen, stop_event, host>>

\* One page, after its recognitions: the detections, the carry update and the
\* pattern check.
ScanPage ==
    /\ pc = "page"
    /\ LET detected_case == DetectedCase(carried_case, scan_index)
           detected_page == DetectedPage(carried_page, scan_index)
           current_case == CurrentCase(carried_case, detected_case)
           current_page_str == CurrentPageStr(carried_page, detected_page)
       IN /\ carried_case' = UpdateCarriedCase(carried_case, detected_case, detected_page)
          /\ carried_page' = UpdateCarriedPage(carried_page, detected_case, detected_page)
          /\ IF PatternFound(current_case, current_page_str)
             THEN /\ chunk_start_page' = ReGroup1(current_page_str)
                  /\ chunk_end_page' = ReGroup2(current_page_str)
                  /\ chunk_case_num' = current_case
                  /\ pattern_found' = TRUE
                  /\ pc' = "found"
                  /\ UNCHANGED scan_index
             ELSE /\ scan_index' = NextScanIndex(scan_index)
                  /\ pc' = "inner"
                  /\ UNCHANGED <<chunk_start_page, chunk_end_page, chunk_case_num,
                                 pattern_found>>
    /\ UNCHANGED <<fnVars, uiVars, pageVars, docVars, current_index, final_end_idx, outVars, evVars,
                   outcome, cancel_seen, stop_event, host>>

\* The boundary resolved: reset the carry, compute the range, append the
\* summary row and start writing the chunk (_save_chunk up to new_doc.save).
Resolve ==
    /\ pc = "found"
    /\ LET start_idx == StartIdx
           fin == FinalEndIdx(scan_index, chunk_start_page, chunk_end_page)
           out_name == OutName(chunk_case_num, start_idx, fin)
       IN /\ fin >= 0 - MaxBack
          /\ carried_case' = ResetCarriedCase(carried_case)
          /\ carried_page' = ResetCarriedPage(carried_page)
          /\ final_end_idx' = fin
          /\ IF Len(chunks) < MaxChunks
             THEN /\ generated_files_data' =
                        Append(generated_files_data, SummaryRow(out_name, start_idx, fin))
                  /\ chunks' = Append(chunks,
                        [start |-> start_idx, end |-> fin - 1, name |-> out_name,
                         anchor |-> scan_index, n |-> chunk_start_page,
                         m |-> chunk_end_page, file |-> "writing"])
                  /\ UNCHANGED log_full
             ELSE /\ log_full' = TRUE
                  /\ UNCHANGED <<generated_files_data, chunks>>
    /\ pc' = "saving"
    /\ UNCHANGED <<fnVars, uiVars, pageVars, docVars, current_index, scan_index, pattern_found, chunk_case_num,
                   chunk_start_page, chunk_end_page, summary, evVars, outcome,
                   cancel_seen, stop_event, host>>

\* The file of the chunk being written, if the model records it.
Writing == Len(chunks) > 0 /\ chunks[Len(chunks)].file = "writing"

\* _save_chunk returns (saved, or failed and logged); 'Saved' event; advance.
SaveChunkDone ==
    /\ pc = "saving"
    /\ \E result \in {"saved", "failed"} :
          chunks' = IF Writing
                    THEN [chunks EXCEPT ![Len(chunks)].file = result]
                    ELSE chunks
    /\ Emit(EvSaved)
    /\ current_index' = final_end_idx
    /\ pc' = "outer"
    /\ UNCHANGED <<fnVars, uiVars, pageVars, docVars, scan_index, carried_case, carried_page, pattern_found,
                   chunk_case_num, chunk_start_page, chunk_end_page, final_end_idx,
                   generated_files_data, log_full, summary, outcome, cancel_seen,
                   stop_event, host>>

\* doc.close(); _save_summary_excel(): written, or failed with an error event.
SaveSummary ==
    /\ pc = "close"
    /\ \/ /\ summary' = [written |-> TRUE, rows |-> SummaryRows(generated_files_data)]
          /\ Emit(EvSummary)
       \/ /\ Emit(EvSummaryFailed)
          /\ UNCHANGED summary
    /\ pc' = "fin"
    /\ UNCHANGED <<fnVars, uiVars, pageVars, docVars, scanVars, generated_files_data, chunks, log_full, outcome,
                   cancel_seen, stop_event, host>>

\* run() after _process_pdf: 'complete' or the cancelled message.
RunFinish ==
    /\ pc = "fin"
    /\ Emit(FinalEvent(stop_event))
    /\ pc' = "done"
    /\ UNCHANGED <<fnVars, uiVars, pageVars, docVars, scanVars, outVars, outcome, cancel_seen, stop_event, host>>

Worker == RunStart \/ OuterLoop \/ InnerLoop \/ PageProgress \/ RecognizeLeft
          \/ RecognizeRight \/ ScanPage \/ Resolve \/ SaveChunkDone \/ SaveSummary
          \/ RunFinish

----------------------------------------------------------------------------
\* The host: MainWindow

\* self.processing_process and self.processing_process.is_alive()
WorkerAlive == pc \notin {"none", "done", "killed"}

\* select_file / on_file_dropped: the file is remembered; the continue button
\* is enabled when the file opens and disabled when it does not.
SelectFile ==
    /\ host = "open"
    /\ screen = "upload"
    /\ selected_file' = TRUE
    /\ \E opens \in BOOLEAN : continue_btn' = opens
    /\ UNCHANGED <<fnVars, timer, screen, selected_folder, start_btn, pageVars, docVars,
                   scanVars, outVars, evVars, pc, outcome, cancel_seen, stop_event, host>>

\* continue_btn: show the output screen.
Continue ==
    /\ host = "open"
    /\ screen = "upload"
    /\ continue_btn
    /\ screen' = "output"
    /\ UNCHANGED <<fnVars, timer, selected_file, selected_folder, continue_btn, start_btn,
                   pageVars, docVars, scanVars, outVars, evVars, pc, outcome, cancel_seen,
                   stop_event, host>>

\* back_btn: show the upload screen.
Back ==
    /\ host = "open"
    /\ screen = "output"
    /\ screen' = "upload"
    /\ UNCHANGED <<fnVars, timer, selected_file, selected_folder, continue_btn, start_btn,
                   pageVars, docVars, scanVars, outVars, evVars, pc, outcome, cancel_seen,
                   stop_event, host>>

\* select_output_folder with a folder chosen: enable the start button.
SelectOutputFolder ==
    /\ host = "open"
    /\ screen = "output"
    /\ selected_folder' = TRUE
    /\ start_btn' = TRUE
    /\ UNCHANGED <<fnVars, timer, screen, selected_file, continue_btn, pageVars, docVars,
                   scanVars, outVars, evVars, pc, outcome, cancel_seen, stop_event, host>>

\* start_processing: without a file or a folder only a warning; otherwise show
\* the processing screen, make a new queue, a new stop event and a new worker
\* process, and start the polling timer.
StartProcessing ==
    /\ host = "open"
    /\ screen = "output"
    /\ start_btn
    /\ IF ~selected_file \/ ~selected_folder
       THEN UNCHANGED <<uiVars, pageVars, scanVars, outVars, evVars, pc, outcome,
                        cancel_seen, stop_event>>
       ELSE /\ screen' = "processing"
            /\ queue' = <<>>
            /\ stop_event' = FALSE
            /\ timer' = TRUE
            /\ pc' = "start"
            /\ current_index' = 0
            /\ scan_index' = 0
            /\ carried_case' = None
            /\ carried_page' = NoCounter
            /\ pattern_found' = FALSE
            /\ chunk_case_num' = None
            /\ chunk_start_page' = 0
            /\ chunk_end_page' = 0
            /\ final_end_idx' = 0
            /\ generated_files_data' = <<>>
            /\ chunks' = <<>>
            /\ log_full' = FALSE
            /\ summary' = NoSummary
            /\ emitted' = {}
            /\ lastEvent' = NoEvent
            /\ outcome' = "running"
            /\ cancel_seen' = FALSE
            /\ config' = DefaultConfig
            /\ ocr_calls' = <<>>
            /\ progress' = 0
            /\ UNCHANGED <<selected_file, selected_folder, continue_btn, start_btn>>
    /\ UNCHANGED <<fnVars, docVars, host>>

\* stop_processing, confirmed: set the stop event (the button is then disabled).
StopProcessing ==
    /\ host = "open"
    /\ screen = "processing"
    /\ ~stop_event
    /\ stop_event' = TRUE
    /\ UNCHANGED <<fnVars, uiVars, pageVars, docVars, scanVars, outVars, evVars, pc, outcome, cancel_seen, host>>

\* The window: the screen shown, the selections and the two buttons.
Window == [screen |-> screen, file |-> selected_file, folder |-> selected_folder,
           continue |-> continue_btn, start |-> start_btn]

\* on_processing_complete: show the complete screen.
OnProcessingComplete(w) == [w EXCEPT !.screen = "complete"]

\* reset_to_upload: forget the selections, disable the buttons, show the
\* upload screen.
ResetToUploadWindow(w) ==
    [screen |-> "upload", file |-> FALSE, folder |-> FALSE, continue |-> FALSE,
     start |-> FALSE]

\* One item of the loop of check_process_status, after its join.
HandleItem(w, e) ==
    IF e.type = "complete" THEN OnProcessingComplete(w) ELSE ResetToUploadWindow(w)

\* The loop of check_process_status over the items of the queue, in order.
RECURSIVE HandleAll(_, _)
HandleAll(w, q) == IF q = <<>> THEN w ELSE HandleAll(HandleItem(w, Head(q)), Tail(q))

\* Mutant: the handler does not wait for the worker to end.
JoinedAtOnce(p) == TRUE
\* processing_process.join() returns: the process has ended.
Joined(p) == p \in {"done", "killed"}

\* check_process_status up to its first join: the timer fired and the queue
\* holds a 'complete' or an 'error' item; stop the timer and join the worker.
CheckProcessStatus ==
    /\ host = "open"
    /\ timer
    /\ queue # <<>>
    /\ timer' = FALSE
    /\ host' = "polling"
    /\ UNCHANGED <<fnVars, screen, selected_file, selected_folder, continue_btn, start_btn,
                   pageVars, docVars, scanVars, outVars, evVars, pc, outcome, cancel_seen,
                   stop_event>>

\* check_process_status from the return of its join: handle the item and then
\* every item left in the queue (the worker has ended, so a later join returns
\* at once).
StatusHandled ==
    /\ host = "polling"
    /\ Joined(pc)
    /\ LET w == HandleAll(Window, queue)
       IN /\ screen' = w.screen
          /\ selected_file' = w.file
          /\ selected_folder' = w.folder
          /\ continue_btn' = w.continue
          /\ start_btn' = w.start
    /\ queue' = <<>>
    /\ host' = "open"
    /\ UNCHANGED <<fnVars, timer, pageVars, docVars, scanVars, outVars, emitted, lastEvent,
                   pc, outcome, cancel_seen, stop_event>>

\* new_btn on the complete screen: reset_to_upload.
ResetToUpload ==
    /\ host = "open"
    /\ screen = "complete"
    /\ LET w == ResetToUploadWindow(Window)
       IN /\ screen' = w.screen
          /\ selected_file' = w.file
          /\ selected_folder' = w.folder
          /\ continue_btn' = w.continue
          /\ start_btn' = w.start
    /\ UNCHANGED <<fnVars, timer, pageVars, docVars, scanVars, outVars, evVars, pc, outcome,
                   cancel_seen, stop_event, host>>

\* closeEvent, confirmed: while processing set the stop event and join with a
\* timeout; otherwise accept.
CloseEvent ==
    /\ host = "open"
    /\ IF WorkerAlive
       THEN /\ stop_event' = TRUE
            /\ host' = "joining"
       ELSE /\ host' = "closed"
            /\ UNCHANGED stop_event
    /\ UNCHANGED <<fnVars, uiVars, pageVars, docVars, scanVars, outVars, evVars, pc, outcome, cancel_seen>>

\* join(timeout=2.0) returns because the worker ended.
JoinReturns ==
    /\ host = "joining"
    /\ ~WorkerAlive
    /\ host' = "closed"
    /\ UNCHANGED <<fnVars, uiVars, pageVars, docVars, scanVars, outVars, evVars, pc, outcome, cancel_seen, stop_event>>

\* join(timeout=2.0) timed out with the worker alive: terminate().
JoinTimeout ==
    /\ host = "joining"
    /\ WorkerAlive
    /\ pc' = "killed"
    /\ host' = "closed"
    /\ UNCHANGED <<fnVars, uiVars, pageVars, docVars, scanVars, outVars, evVars, outcome, cancel_seen, stop_event>>

\* The host while the processing screen is shown.
Host == StopProcessing \/ CheckProcessStatus \/ StatusHandled
        \/ CloseEvent \/ JoinReturns \/ JoinTimeout

Next == Worker \/ Host

Spec == Init /\ [][Next]_vars

\* The worker process is scheduled as long as it can take a step, and the
\* status timer, while active, fires again and again (status_timer.start(100));
\* the other actions of the host are the user's and need not happen.
FairSpec == Spec /\ WF_vars(Worker) /\ WF_vars(CheckProcessStatus \/ StatusHandled)

\* The window from its construction on: the user selects a file and a folder,
\* starts a run, and after a run starts over. The file selected is one of the
\* named documents, or is missing, or the engine fails to initialize.
UiInit ==
    /\ \/ inputExists = TRUE /\ ocrReady = TRUE /\ (RewindDoc \/ TwoCaseDoc)
       \/ /\ inputExists \in BOOLEAN
          /\ ocrReady = ~inputExists
          /\ NoDoc
    /\ AppInit
    /\ FnIdle

\* The buttons of the upload, output and complete screens.
Ui == SelectFile \/ Continue \/ Back \/ SelectOutputFolder \/ StartProcessing
      \/ ResetToUpload

UiNext == Next \/ Ui

UiSpec == UiInit /\ [][UiNext]_vars

TypeOK ==
    /\ pc \in {"none", "start", "outer", "inner", "emit", "ocr", "ocr2", "page", "found",
               "saving", "close", "fin", "done", "killed"}
    /\ outcome \in {"running", "exhausted", "no_boundary", "cancelled", "error"}
    /\ host \in {"open", "polling", "joining", "closed"}
    /\ screen \in {"upload", "output", "processing", "complete"}
    /\ Len(queue) <= 2
    /\ Len(chunks) <= MaxChunks
    /\ Len(generated_files_data) = Len(chunks)

----------------------------------------------------------------------------
\* OCREngine.extract_text, applied on its own

\* Text lines a recognition attempt can return for a footer crop.
LineLists == {<<>>,
              <<"Case Number: 55-1111">>,
              <<"Page 1 of 6">>,
              <<"Case Number: 55-1111", "Page 1 of 6">>,
              <<"random text">>}
\* A recognition attempt (conversion, predict, reading of the result) raises,
\* or returns text lines.
Raises == [ok |-> FALSE, texts |-> <<>>]
Returns(texts) == [ok |-> TRUE, texts |-> texts]
Attempts == {Raises} \cup {Returns(t) : t \in LineLists}

\* extract_text is called on a crop: what the attempt on the preprocessed
\* image and the attempt on the raw image would do; the engine initialized or
\* not.
OcrInit ==
    /\ inputExists = TRUE /\ ocrReady \in BOOLEAN /\ NoDoc
    /\ RunInit
    /\ fn = "extract_text"
    /\ fn_in \in [first : Attempts, raw : Attempts]
    /\ fn_out = [texts |-> <<>>, attempts |-> 0]
    /\ fn_pc = "call"

\* Mutant: the second failure is raised to the caller.
FallbackRaises(raw) ==
    IF raw.ok THEN [pc |-> "returned", texts |-> raw.texts]
    ELSE [pc |-> "raised", texts |-> <<>>]
\* the inner try of the except branch: the texts of the raw image, or []
Fallback(raw) ==
    IF raw.ok THEN [pc |-> "returned", texts |-> raw.texts]
    ELSE [pc |-> "returned", texts |-> <<>>]

\* extract_text up to the end of its try block.
ExtractTextTry ==
    /\ fn = "extract_text" /\ fn_pc = "call"
    /\ IF ~ocrReady
       THEN /\ fn_pc' = "raised"
            /\ UNCHANGED fn_out
       ELSE IF fn_in.first.ok
       THEN /\ fn_out' = [texts |-> fn_in.first.texts, attempts |-> 1]
            /\ fn_pc' = "returned"
       ELSE /\ fn_out' = [fn_out EXCEPT !.attempts = 1]
            /\ fn_pc' = "retry"
    /\ UNCHANGED <<runVars, fn, fn_in>>

\* The except branch of extract_text: the raw image.
ExtractTextFallback ==
    /\ fn = "extract_text" /\ fn_pc = "retry"
    /\ fn_out' = [texts |-> Fallback(fn_in.raw).texts, attempts |-> fn_out.attempts + 1]
    /\ fn_pc' = Fallback(fn_in.raw).pc
    /\ UNCHANGED <<runVars, fn, fn_in>>

OcrNext == ExtractTextTry \/ ExtractTextFallback

OcrSpec == OcrInit /\ [][OcrNext]_vars

----------------------------------------------------------------------------
\* PDFProcessor._normalize_case_number, applied on its own

\* Strings are sequences of one-character strings.
Digits == {"0", "1", "2", "3", "4", "5", "6", "7", "8", "9"}
\* the character class [\dIl-]
IsKept(c) == c \in Digits \cup {"I", "l", "-"}
\* ''.join(re.findall(r'[\dIl-]+', raw_text))
FindAllJoin(raw) == SelectSeq(raw, IsKept)
\* pattern.replace('I', '1').replace('l', '1')
ReplaceIl(s) == [i \in 1..Len(s) |-> IF s[i] \in {"I", "l"} THEN "1" ELSE s[i]]

RECURSIVE LStrip(_, _)
\* s.lstrip(chars): drop leading characters as long as they are in chars
LStrip(s, chars) ==
    IF s # <<>> /\ Head(s) \in chars THEN LStrip(Tail(s), chars) ELSE s

RECURSIVE SplitOn(_, _)
\* s.split(sep), sep one character: the pieces between separators, empty ones
\* included
SplitOn(s, sep) ==
    IF \A i \in 1..Len(s) : s[i] # sep THEN <<s>>
    ELSE LET i == CHOOSE k \in 1..Len(s) :
                      s[k] = sep /\ \A j \in 1..(k - 1) : s[j] # sep
         IN <<SubSeq(s, 1, i - 1)>> \o SplitOn(SubSeq(s, i + 1, Len(s)), sep)

IsNonEmpty(seg) == Len(seg) > 0
\* seg[-3:] if len(seg) >= 3 else seg
LastThree(seg) == IF Len(seg) >= 3 THEN SubSeq(seg, Len(seg) - 2, Len(seg)) ELSE seg
\* Mutant: a segment between first and last is kept whole.
WholeSegment(seg) == seg
\* seg[:3]
FirstThree(seg) == SubSeq(seg, 1, Min(3, Len(seg)))

RECURSIVE JoinWith(_, _)
\* sep.join(parts)
JoinWith(parts, sep) ==
    IF parts = <<>> THEN <<>>
    ELSE IF Len(parts) = 1 THEN parts[1]
    ELSE parts[1] \o <<sep>> \o JoinWith(Tail(parts), sep)

\* final: [first] + middle, and last if there is more than one segment
FinalParts(segments) ==
    IF Len(segments) = 1 THEN <<LastThree(segments[1])>>
    ELSE <<LastThree(segments[1])>>
         \o [i \in 1..(Len(segments) - 2) |-> FirstThree(segments[i + 1])]
         \o <<segments[Len(segments)]>>

\* Mutant: the pattern keeps its leading '1' and '-' characters.
PatternUnstripped(raw) == ReplaceIl(FindAllJoin(raw))
\* pattern after the lstrip, and the non-empty segments of its split
Pattern(raw) == LStrip(ReplaceIl(FindAllJoin(raw)), {"1", "-"})
Segments(raw) == SelectSeq(SplitOn(Pattern(raw), "-"), IsNonEmpty)

\* _normalize_case_number(raw_text)
NormalizeCaseNumber(raw) ==
    IF Segments(raw) = <<>> THEN <<"I", "-">>
    ELSE <<"I", "-">> \o JoinWith(FinalParts(Segments(raw)), "-")

\* Raw texts: every string of up to MaxRawLen characters of RawAlphabet, and
\* the texts "CASE NUMBER: 123-4567-89", "Case Number: 55-1111" and "2123-45".
RawAlphabet == {"1", "2", "-", "I", "l", "C"}
BoundedRaws == UNION {[1..n -> RawAlphabet] : n \in 0..MaxRawLen}
ExampleRaw == <<"C", "A", "S", "E", " ", "N", "U", "M", "B", "E", "R", ":", " ",
                "1", "2", "3", "-", "4", "5", "6", "7", "-", "8", "9">>
ScenarioRaw == <<"C", "a", "s", "e", " ", "N", "u", "m", "b", "e", "r", ":", " ",
                 "5", "5", "-", "1", "1", "1", "1">>
LongSegmentRaw == <<"2", "1", "2", "3", "-", "4", "5">>
RawTexts == BoundedRaws \cup {ExampleRaw, ScenarioRaw, LongSegmentRaw}

\* _normalize_case_number is called on a raw text.
NormInit ==
    /\ inputExists = TRUE /\ ocrReady = TRUE /\ NoDoc
    /\ RunInit
    /\ fn = "normalize"
    /\ fn_in \in RawTexts
    /\ fn_out = <<>>
    /\ fn_pc = "call"

\* The call returns.
NormalizeCall ==
    /\ fn = "normalize" /\ fn_pc = "call"
    /\ fn_out' = NormalizeCaseNumber(fn_in)
    /\ fn_pc' = "returned"
    /\ UNCHANGED <<runVars, fn, fn_in>>

NormNext == NormalizeCall

NormSpec == NormInit /\ [][NormNext]_vars

----------------------------------------------------------------------------
\* The detectors, applied on their own

UpperLetters == <<"A", "B", "C", "D", "E", "F", "G", "H", "I", "J", "K", "L", "M", "N",
                "O", "P", "Q", "R", "S", "T", "U", "V", "W", "X", "Y", "Z">>
LowerLetters == <<"a", "b", "c", "d", "e", "f", "g", "h", "i", "j", "k", "l", "m", "n",
                "o", "p", "q", "r", "s", "t", "u", "v", "w", "x", "y", "z">>
\* c.lower()
ToLower(c) ==
    IF \E i \in 1..Len(UpperLetters) : UpperLetters[i] = c
    THEN LowerLetters[CHOOSE i \in 1..Len(UpperLetters) : UpperLetters[i] = c]
    ELSE c
\* s.lower()
Lower(s) == [i \in 1..Len(s) |-> ToLower(s[i])]
\* the characters \s stands for in the recognized lines
Spaces == {" "}

RECURSIVE SkipWhile(_, _, _)
\* The first position from j on whose character is not in chars.
SkipWhile(s, j, chars) ==
    IF j <= Len(s) /\ s[j] \in chars THEN SkipWhile(s, j + 1, chars) ELSE j
\* word stands in s at position j.
HasAt(s, j, word) ==
    /\ j >= 1 /\ j + Len(word) - 1 <= Len(s)
    /\ SubSeq(s, j, j + Len(word) - 1) = word

\* <num>\s*of\s*<num> matches in s at position j, <num> being one or more
\* characters of chars.
NumOfNumAt(s, j, chars) ==
    LET afterN == SkipWhile(s, j, chars)
        atOf == SkipWhile(s, afterN, Spaces)
        atM == SkipWhile(s, atOf + 2, Spaces)
    IN /\ afterN > j
       /\ HasAt(s, atOf, <<"o", "f">>)
       /\ atM <= Len(s) /\ s[atM] \in chars

\* page_regex.search(text): (page|pg)\s*[0-9I]+\s*of\s*[0-9I]+, re.IGNORECASE
PageRegexSearch(text) ==
    LET s == Lower(text)
        nums == Digits \cup {"i"}
    IN \E i \in 1..Len(s) :
          \/ /\ HasAt(s, i, <<"p", "a", "g", "e">>)
             /\ NumOfNumAt(s, SkipWhile(s, i + 4, Spaces), nums)
          \/ /\ HasAt(s, i, <<"p", "g">>)
             /\ NumOfNumAt(s, SkipWhile(s, i + 2, Spaces), nums)

\* re.search(r"([0-9]+)\s*of\s*([0-9]+)", current_page_str) finds a match
ScanRegexSearch(text) == \E i \in 1..Len(text) : NumOfNumAt(text, i, Digits)

RECURSIVE RStrip(_, _)
RStrip(s, chars) ==
    IF s # <<>> /\ s[Len(s)] \in chars THEN RStrip(SubSeq(s, 1, Len(s) - 1), chars) ELSE s
\* s.strip()
Strip(s) == RStrip(LStrip(s, Spaces), Spaces)
\* text.replace("I", "1")
ReplaceI(s) == [i \in 1..Len(s) |-> IF s[i] = "I" THEN "1" ELSE s[i]]

\* threshold=70
Threshold == 70
\* Values of fuzz.partial_ratio(text.lower(), phrase): below the threshold,
\* and two above it.
Scores == {60, 80, 90}

\* An optional string: None, or a text.
NoText == [found |-> FALSE, text |-> <<>>]
Text(s) == [found |-> TRUE, text |-> s]
\* best_score = 0; best_match = None
NoBest == [score |-> 0, found |-> FALSE, text |-> <<>>]

\* the body of the loop of _detect_case_number
CaseStep(best, text, score) ==
    IF score >= Threshold /\ score > best.score
    THEN [score |-> score, found |-> TRUE, text |-> Strip(text)]
    ELSE best

\* Mutant: a line is kept whether or not it matches page_regex.
PageStepAnyLine(best, text, score) ==
    IF score >= Threshold /\ score > best.score
    THEN [score |-> score, found |-> TRUE, text |-> Strip(ReplaceI(text))]
    ELSE best
\* the body of the loop of _detect_page_number
PageStep(best, text, score) ==
    IF PageRegexSearch(text) /\ score >= Threshold /\ score > best.score
    THEN [score |-> score, found |-> TRUE, text |-> Strip(ReplaceI(text))]
    ELSE best

RECURSIVE CaseLoop(_, _, _, _)
\* for text in text_list, from the k-th line on
CaseLoop(lines, score, k, best) ==
    IF k > Len(lines) THEN best
    ELSE CaseLoop(lines, score, k + 1, CaseStep(best, lines[k], score[lines[k]]))

RECURSIVE PageLoop(_, _, _, _)
PageLoop(lines, score, k, best) ==
    IF k > Len(lines) THEN best
    ELSE PageLoop(lines, score, k + 1, PageStep(best, lines[k], score[lines[k]]))

\* Mutant: the best line is returned as it is, trimmed.
DetectCaseNumberTrimmed(lines, score) ==
    LET best == CaseLoop(lines, score, 1, NoBest)
    IN IF best.found /\ best.text # <<>> THEN Text(best.text) ELSE NoText
\* _detect_case_number(text_list): the best line normalized, or None
DetectCaseNumber(lines, score) ==
    LET best == CaseLoop(lines, score, 1, NoBest)
    IN IF best.found /\ best.text # <<>>
       THEN Text(NormalizeCaseNumber(best.text))
       ELSE NoText

\* _detect_page_number(text_list): best_match
DetectPageNumber(lines, score) ==
    LET best == PageLoop(lines, score, 1, NoBest)
    IN IF best.found THEN Text(best.text) ELSE NoText

\* Recognized lines: "Page 2 of 10", "random text", " Page 1 OF 2 ",
\* "Case Number: 55-1111 ", "pg I of 3" and " ".
PageLine == <<"P", "a", "g", "e", " ", "2", " ", "o", "f", " ", "1", "0">>
RandomLine == <<"r", "a", "n", "d", "o", "m", " ", "t", "e", "x", "t">>
UpperOfLine == <<" ", "P", "a", "g", "e", " ", "1", " ", "O", "F", " ", "2",
                 " ">>
CaseLine == <<"C", "a", "s", "e", " ", "N", "u", "m", "b", "e", "r", ":",
              " ", "5", "5", "-", "1", "1", "1", "1", " ">>
PgILine == <<"p", "g", " ", "I", " ", "o", "f", " ", "3">>
BlankLine == <<" ">>
LineTexts == {PageLine, RandomLine, UpperOfLine, CaseLine, PgILine, BlankLine}
RecognizedLists == UNION {[1..n -> LineTexts] : n \in 0..MaxLines}

\* A detector is called on a list of lines; the similarity score is some
\* function of the line.
DetInit ==
    /\ inputExists = TRUE /\ ocrReady = TRUE /\ NoDoc
    /\ RunInit
    /\ fn \in {"detect_case", "detect_page"}
    /\ fn_in \in [lines : RecognizedLists, score : [LineTexts -> Scores]]
    /\ fn_out = NoText
    /\ fn_pc = "call"

DetectCaseCall ==
    /\ fn = "detect_case" /\ fn_pc = "call"
    /\ fn_out' = DetectCaseNumber(fn_in.lines, fn_in.score)
    /\ fn_pc' = "returned"
    /\ UNCHANGED <<runVars, fn, fn_in>>

DetectPageCall ==
    /\ fn = "detect_page" /\ fn_pc = "call"
    /\ fn_out' = DetectPageNumber(fn_in.lines, fn_in.score)
    /\ fn_pc' = "returned"
    /\ UNCHANGED <<runVars, fn, fn_in>>

DetNext == DetectCaseCall \/ DetectPageCall

DetSpec == DetInit /\ [][DetNext]_vars

----------------------------------------------------------------------------
\* Emitted chunks

\* The pages of the i-th emitted chunk (startPage..endPage, inclusive).
Covered(i) == chunks[i].start .. chunks[i].end
\* The scan has ended for good.
ScanOver == pc \in {"close", "fin", "done", "killed"}
ErrorEmitted == \E e \in emitted : e.type = "error"

\* C1: every emitted chunk (startPage, endPage) satisfies
\* 0 <= startPage <= endPage <= totalPages - 1, and each chunk's startPage is
\* greater than the previous chunk's endPage.
C1_ChunksInRangeIncreasing ==
    /\ \A i \in 1..Len(chunks) :
          /\ 0 <= chunks[i].start
          /\ chunks[i].start <= chunks[i].end
          /\ chunks[i].end <= totalPages - 1
    /\ \A i \in 2..Len(chunks) : chunks[i].start > chunks[i - 1].end

\* C2: the first emitted chunk starts at page 0, each later chunk starts at
\* the previous chunk's endPage + 1, and the emitted chunks partition exactly
\* the pages [0, cursor), cursor being the last chunk's endPage + 1.
C2_ChunksPartitionPrefix ==
    Len(chunks) > 0 =>
        /\ chunks[1].start = 0
        /\ \A i \in 2..Len(chunks) : chunks[i].start = chunks[i - 1].end + 1
        /\ \A i, j \in 1..Len(chunks) : i # j => Covered(i) \cap Covered(j) = {}
        /\ UNION {Covered(i) : i \in 1..Len(chunks)} = 0 .. chunks[Len(chunks)].end

\* C7: when a chunk scan reaches totalPages without resolving a boundary and
\* no cancellation was requested, the run ends in NO_BOUNDARY_FOUND: no page
\* at or after that scan's chunkStart belongs to an emitted chunk, no error
\* event has been emitted when the scan ends, no further page is scanned; and
\* a document without a page matching the counter pattern yields no chunk.
C7_NoBoundaryEndsRun ==
    /\ outcome = "no_boundary" =>
          /\ ScanOver
          /\ \A i \in 1..Len(chunks) : \A p \in Covered(i) : p < current_index
          /\ pc = "close" => ~ErrorEmitted
    /\ (\A p \in DOMAIN ctrDet : ~ReMatches(ctrDet[p])) => chunks = <<>>

\* The summary rows of the emitted chunks: (label, startPage + 1, endPage + 1).
RowsOf(cs) == [i \in 1..Len(cs) |-> <<cs[i].name, cs[i].start + 1, cs[i].end + 1>>]
\* finalEnd of the i-th chunk by the rule min(anchor + (M - N) + 1, totalPages).
RuleEnd(i) ==
    LET calc == chunks[i].anchor + (chunks[i].m - chunks[i].n) + 1
    IN IF calc <= totalPages THEN calc ELSE totalPages

\* C3: a boundary resolved at anchor a with counter (N, M) emits the chunk
\* (chunkStart, finalEnd - 1), finalEnd = min(a + (M - N) + 1, totalPages);
\* the cursor becomes finalEnd and the next chunk starts there.
C3_BoundaryRange ==
    /\ \A i \in 1..Len(chunks) :
          /\ chunks[i].end = RuleEnd(i) - 1
          /\ chunks[i].start = IF i = 1 THEN 0 ELSE RuleEnd(i - 1)
    /\ (pc \in {"outer", "inner", "emit", "ocr", "ocr2", "page", "found"}
            /\ Len(chunks) > 0 /\ ~log_full) =>
          /\ current_index = RuleEnd(Len(chunks))
          /\ scan_index >= current_index \/ pc = "outer"
    /\ (pc = "saving" /\ Writing) => final_end_idx = RuleEnd(Len(chunks))

\* C3 witness: at least two chunks were emitted and the calculated end of one
\* of them exceeded totalPages, so that it was clamped.
C3_Witness ==
    /\ pc = "outer"
    /\ Len(chunks) >= 2
    /\ \E i \in 1..Len(chunks) :
          chunks[i].anchor + (chunks[i].m - chunks[i].n) + 1 > totalPages

\* C4 as claimed: the 10-page scenario, run without cancellation, emits
\* exactly one chunk spanning pages 4-9, the cursor reaches 10 and the run
\* ends by normal exhaustion.
C4_ScenarioChunk4to9 ==
    (IsScenario /\ pc = "done" /\ ~stop_event) =>
        /\ Len(chunks) = 1
        /\ chunks[1].start = 4
        /\ chunks[1].end = 9
        /\ current_index = 10
        /\ outcome = "exhausted"

\* C4 amended: the 10-page scenario, run without cancellation, emits exactly
\* one chunk spanning pages 0-9 (anchored at page 4), the cursor reaches 10
\* and the run ends by normal exhaustion.
C4_ScenarioChunk0to9 ==
    (IsScenario /\ pc = "done" /\ ~stop_event) =>
        /\ Len(chunks) = 1
        /\ chunks[1].start = 0
        /\ chunks[1].end = 9
        /\ chunks[1].anchor = 4
        /\ current_index = 10
        /\ outcome = "exhausted"

\* C4 witness: the scenario run has finished without cancellation.
C4_Witness == IsScenario /\ pc = "done" /\ ~stop_event /\ Len(chunks) = 1

\* The run was cut at the lowest cursor the model follows.
CutAtFloor ==
    pc = "found" /\ FinalEndIdx(scan_index, chunk_start_page, chunk_end_page) < 0 - MaxBack

\* C5: every run eventually reaches a terminal state without cancellation
\* being needed.
C5_RunTerminates == <>(pc \in {"done", "killed"} \/ CutAtFloor)

\* C6: in a chunk scan where one identifier is carried and the other has not
\* been seen, the page on which the other is first detected resolves the
\* boundary: anchor = that page, with the carried identifier and the fresh one.
C6_CarryResolvesAtCounterpart ==
    [][ ( /\ pc = "page"
          /\ pc' \in {"inner", "found"}
          /\ \/ /\ IsCase(carried_case) /\ ~IsCounter(carried_page)
                /\ IsCounter(ctrDet[PageAt(scan_index)])
             \/ /\ IsCounter(carried_page) /\ ~IsCase(carried_case)
                /\ IsCase(caseDet[PageAt(scan_index)]) )
        => ( /\ pc' = "found"
             /\ scan_index' = scan_index
             /\ chunk_case_num' =
                   (IF IsCase(carried_case) THEN carried_case
                    ELSE caseDet[PageAt(scan_index)]) ) ]_vars

\* C8 as claimed: a 'complete' event is emitted only on a normal finish (the
\* cursor reached totalPages); NO_BOUNDARY_FOUND and CANCELLED runs emit none.
C8_CompleteOnlyOnExhaustion ==
    EvComplete \in emitted => (outcome = "exhausted" /\ current_index >= totalPages)

\* C8 amended: a 'complete' event is emitted only when the scan ended by
\* normal exhaustion or in NO_BOUNDARY_FOUND, as the run's last step and never
\* with the cancelled message; a CANCELLED run emits the cancelled message and
\* no 'complete'; a NO_BOUNDARY_FOUND run ends with exactly one of the two.
C8_CompleteUnlessCancelled ==
    /\ EvComplete \in emitted =>
          /\ outcome \in {"exhausted", "no_boundary"}
          /\ pc = "done"
          /\ EvCancelled \notin emitted
    /\ (pc = "done" /\ outcome = "cancelled") =>
          (EvCancelled \in emitted /\ EvComplete \notin emitted)
    /\ (pc = "done" /\ outcome = "no_boundary") =>
          ((EvComplete \in emitted) # (EvCancelled \in emitted))

\* C8 witness: a run that ended in NO_BOUNDARY_FOUND has emitted 'complete'.
C8_Witness == pc = "done" /\ outcome = "no_boundary" /\ EvComplete \in emitted

\* C9: once a loop check has observed the cancellation, the scan is over: no
\* page is scanned and no chunk is emitted any more, the rows recorded so far
\* are kept, and the summary, when written, holds exactly the rows of the
\* chunks emitted before.
C9_CancelStopsScan ==
    [][ cancel_seen' =>
          /\ pc' \in {"close", "fin", "done", "killed"}
          /\ outcome' = "cancelled"
          /\ chunks' = chunks
          /\ generated_files_data' = generated_files_data
          /\ summary'.written => summary'.rows = RowsOf(chunks) ]_vars

\* C9 witness: a run cancelled after its first chunk has written its summary.
C9_Witness == cancel_seen /\ pc = "done" /\ Len(chunks) >= 1 /\ summary.written

\* C10: a chunk write that has started runs to completion: when the worker
\* has ended, no chunk file is left partially written.
C10_NoPartialChunk ==
    ~WorkerAlive => \A i \in 1..Len(chunks) : chunks[i].file # "writing"

----------------------------------------------------------------------------
\* Error handling

\* C11 as stated: whenever the stop event is set at the step that ends the
\* run, the worker's last event is the cancelled message.
C11_CancelledMessageWheneverFlagSet ==
    [][(WorkerAlive /\ pc' = "done" /\ stop_event) => lastEvent' = EvCancelled]_vars

\* C11, amended: whenever the stop event is set when run() makes its final
\* test after _process_pdf has returned, the worker's last event is the
\* cancelled message and no 'complete' is emitted; observing the stop event
\* emits nothing, and a cancelled run has no 'error' event except the one of a
\* summary that could not be written.
C11_CancelledMessageAfterProcessPdf ==
    [][/\ (pc = "fin" /\ pc' = "done" /\ stop_event)
            => (lastEvent' = EvCancelled /\ EvComplete \notin emitted')
       /\ (cancel_seen' /\ ~cancel_seen) => emitted' = emitted
       /\ outcome' = "cancelled"
            => /\ EvError \notin emitted'
               /\ EvSummaryFailed \in emitted' => ~summary'.written]_vars

\* A run that saw the stop event has ended with the cancelled message.
C11_Witness == pc = "done" /\ cancel_seen /\ lastEvent = EvCancelled /\ ~ErrorEmitted

\* The summary row of the i-th emitted chunk.
RowOf(i) == SummaryRow(chunks[i].name, chunks[i].start, chunks[i].end + 1)

\* C12: when the file of a chunk could not be written, no 'error' event is
\* emitted for it, the cursor advances to the chunk's finalEnd, and the chunk
\* has no row in the summary data nor in the written summary.
C12_FailedChunkHasNoRow ==
    \A i \in 1..Len(chunks) :
        chunks[i].file = "failed" =>
            /\ EvError \notin emitted
            /\ (i = Len(chunks) /\ pc = "outer" /\ ~log_full)
                    => current_index = chunks[i].end + 1
            /\ \A k \in 1..Len(generated_files_data) : generated_files_data[k] # RowOf(i)
            /\ \A k \in 1..Len(summary.rows) : summary.rows[k] # RowOf(i)

\* C13: when the source document does not exist, the run aborts before any
\* page is scanned: once it has ended an 'error' event is its last event, and
\* at no time is there a progress event, a chunk, a summary or a 'complete'.
C13_MissingInputAborts ==
    ~inputExists =>
        /\ pc \in {"start", "done", "killed"}
        /\ pc = "done" => (lastEvent = EvError /\ outcome = "error")
        /\ EvScanChunk \notin emitted /\ EvScanPage \notin emitted
        /\ chunks = <<>> /\ generated_files_data = <<>>
        /\ ~summary.written /\ EvSummary \notin emitted
        /\ EvComplete \notin emitted

\* A run on a missing input, with the engine initialized, has ended.
C13_Witness == ~inputExists /\ ocrReady /\ pc = "done" /\ EvStart \in emitted

----------------------------------------------------------------------------
\* The carry and the boundary

\* C15: at the first page iteration of every chunk scan (the scan position is
\* the chunk's start) both carried values are empty.
C15_CarryEmptyAtChunkStart ==
    (pc \in {"inner", "page"} /\ scan_index = current_index)
        => (carried_case = None /\ carried_page = NoCounter)

\* The first page of a chunk scan that follows a chunk whose boundary was
\* resolved after its first page.
C15_Witness ==
    /\ pc = "page" /\ scan_index = current_index
    /\ Len(chunks) >= 1 /\ ~log_full
    /\ chunks[Len(chunks)].anchor > chunks[Len(chunks)].start

\* C16: once a case or a page counter is carried, no step changes the carried
\* value, whatever the later pages of the scan yield, except the step that
\* resolves the boundary and empties the carry.
C16_CarrySticky ==
    [][/\ IsCase(carried_case)
            => \/ carried_case' = carried_case
               \/ pc = "found" /\ pc' = "saving" /\ carried_case' = None
       /\ IsCounter(carried_page)
            => \/ carried_page' = carried_page
               \/ pc = "found" /\ pc' = "saving" /\ carried_page' = NoCounter]_vars

\* A page that yields another case than the carried one has been scanned, and
\* the scan goes on with the carried case.
C16_Witness ==
    /\ pc = "inner" /\ IsCase(carried_case)
    /\ scan_index - 1 > current_index
    /\ IsCase(caseDet[PageAt(scan_index - 1)])
    /\ caseDet[PageAt(scan_index - 1)] # carried_case

\* The case and the counter the scan has at the page under the scan position:
\* the carried value, or else what the page yields.
ResolvedCase == IF IsCase(carried_case) THEN carried_case
                ELSE caseDet[PageAt(scan_index)]
ResolvedCounter == IF IsCounter(carried_page) THEN carried_page
                   ELSE ctrDet[PageAt(scan_index)]

\* C17: the scan of a page ends in the boundary-found position if and only if
\* a case and a counter are both resolved there (carried or fresh) and the
\* counter matches "N of M"; and every emitted chunk has, among the pages its
\* scan went through, one that yields a case and one that yields a matching
\* counter.
C17_BoundaryIffBothResolved ==
    /\ [][(pc = "page" /\ pc' \in {"inner", "found"})
            => (pc' = "found" <=> /\ IsCase(ResolvedCase)
                                  /\ IsCounter(ResolvedCounter)
                                  /\ ReMatches(ResolvedCounter))]_vars
    /\ [](\A i \in 1..Len(chunks) :
            /\ \E p \in chunks[i].start .. chunks[i].anchor : IsCase(caseDet[PageAt(p)])
            /\ \E p \in chunks[i].start .. chunks[i].anchor :
                    /\ IsCounter(ctrDet[PageAt(p)])
                    /\ ReMatches(ctrDet[PageAt(p)]))

\* A boundary was found with a carried case, past the first page of a scan
\* that follows an emitted chunk.
C17_Witness ==
    /\ pc = "found" /\ IsCase(carried_case) /\ scan_index > current_index
    /\ Len(chunks) >= 1

\* C18: the case of a found boundary is the case resolved at its page, and
\* the chunk emitted for it is labelled with that case followed by ".pdf"
\* when there is one, "Unknown_pages_{chunkStart+1}-{finalEnd}.pdf" otherwise;
\* the case of every emitted chunk is one a page of its scan yields.
C18_ChunkLabel ==
    /\ [][/\ (pc = "page" /\ pc' = "found") => chunk_case_num' = ResolvedCase
          /\ (pc = "found" /\ pc' = "saving" /\ Len(chunks') > Len(chunks))
                => chunks'[Len(chunks')].name =
                      (IF IsCase(chunk_case_num)
                       THEN <<chunk_case_num, ".pdf">>
                       ELSE <<"Unknown_pages_", current_index + 1, "-",
                              final_end_idx', ".pdf">>)]_vars
    /\ [](\A i \in 1..Len(chunks) :
            \E p \in chunks[i].start .. chunks[i].anchor :
                /\ IsCase(caseDet[PageAt(p)])
                /\ chunks[i].name = <<caseDet[PageAt(p)], ".pdf">>)

\* A chunk is labelled with the case carried from an earlier page, the page of
\* its boundary yielding another case.
C18_Witness ==
    /\ Len(chunks) >= 1
    /\ chunks[1].name = <<"I-55-1111", ".pdf">>
    /\ caseDet[PageAt(chunks[1].anchor)] = "I-77-2222"

\* C14: with the engine initialized, extract_text never raises; an attempt
\* that succeeds is the only one and its texts are returned; an attempt that
\* fails is followed by exactly one more, on the raw image, whose texts are
\* returned, or the empty list if it fails too.
C14_RecognitionRetriedOnce ==
    (fn = "extract_text" /\ ocrReady) =>
        /\ fn_pc # "raised"
        /\ fn_pc = "retry" => (~fn_in.first.ok /\ fn_out.attempts = 1)
        /\ fn_pc = "returned" =>
              IF fn_in.first.ok
              THEN fn_out = [texts |-> fn_in.first.texts, attempts |-> 1]
              ELSE /\ fn_out.attempts = 2
                   /\ fn_in.raw.ok => fn_out.texts = fn_in.raw.texts
                   /\ ~fn_in.raw.ok => fn_out.texts = <<>>

\* Both attempts failed and extract_text has returned the empty list.
C14_Witness ==
    /\ fn = "extract_text" /\ ocrReady /\ fn_pc = "returned"
    /\ ~fn_in.first.ok /\ ~fn_in.raw.ok
    /\ fn_out = [texts |-> <<>>, attempts |-> 2]

----------------------------------------------------------------------------
\* The normalizer

\* C19: normalize("CASE NUMBER: 123-4567-89") has the segments "123", "4567",
\* "89" and returns "I-123-456-89".
C19_NormalizeExample ==
    (fn = "normalize" /\ fn_in = ExampleRaw /\ fn_pc = "returned") =>
        /\ Segments(fn_in) = << <<"1", "2", "3">>, <<"4", "5", "6", "7">>, <<"8", "9">> >>
        /\ fn_out = <<"I", "-", "1", "2", "3", "-", "4", "5", "6", "-", "8", "9">>


RECURSIVE StripLeadingRun(_)
\* s without its leading run of "1-": the prefix "1-", as often as it repeats.
StripLeadingRun(s) ==
    IF Len(s) >= 2 /\ s[1] = "1" /\ s[2] = "-"
    THEN StripLeadingRun(SubSeq(s, 3, Len(s)))
    ELSE s

\* The reference of C20: keep digits, 'I', 'l' and '-'; map 'I' and 'l' to
\* '1'; strip a leading "1-" run; split on '-' and drop the empty segments;
\* "I-" if none is left, else "I-" and the '-'-join of the last up to 3
\* characters of the first segment, the first up to 3 characters of each
\* segment between first and last, and the whole last segment if there is
\* more than one.
ReferenceNormalize(raw) ==
    LET kept == SelectSeq(raw, IsKept)
        mapped == [i \in 1..Len(kept) |-> IF kept[i] \in {"I", "l"} THEN "1" ELSE kept[i]]
        segs == SelectSeq(SplitOn(StripLeadingRun(mapped), "-"), IsNonEmpty)
        n == Len(segs)
        part(i) == IF i = 1 THEN LastThree(segs[1])
                   ELSE IF i < n THEN FirstThree(segs[i])
                   ELSE segs[n]
    IN IF n = 0 THEN <<"I", "-">>
       ELSE <<"I", "-">> \o JoinWith([i \in 1..n |-> part(i)], "-")

\* C20: for every raw text, the result of normalize is the reference's.
C20_NormalizeEqualsReference ==
    (fn = "normalize" /\ fn_pc = "returned") => fn_out = ReferenceNormalize(fn_in)

\* The segments the reference of C20 is left with.
ReferenceSegments(raw) ==
    SelectSeq(SplitOn(StripLeadingRun(ReplaceIl(FindAllJoin(raw))), "-"), IsNonEmpty)
\* The raw text has a digit that is not part of a leading "1-" run.
HasDigitPastLeadingRun(raw) ==
    \E i \in 1..Len(StripLeadingRun(FindAllJoin(raw))) :
        StripLeadingRun(FindAllJoin(raw))[i] \in Digits

\* C21: normalize returns "I-" if and only if no segment remains after the
\* filter, the mapping, the strip of the leading "1-" run and the split; and
\* a raw text with a digit that is not part of a leading "1-" run yields a
\* result longer than "I-".
C21_PlaceholderIffNoSegments ==
    (fn = "normalize" /\ fn_pc = "returned") =>
        /\ fn_out = <<"I", "-">> <=> ReferenceSegments(fn_in) = <<>>
        /\ HasDigitPastLeadingRun(fn_in) => Len(fn_out) > 2

----------------------------------------------------------------------------
\* The detectors

\* No line of the list matches the pattern of the page counter.
NoLineMatches(lines) == \A k \in 1..Len(lines) : ~PageRegexSearch(lines[k])

\* C22 as stated: detectPageCounter(["Page 2 of 10", "random text"]), the
\* first line scoring at least 70, returns "page 2 of 10"; and a list none of
\* whose lines matches the pattern yields none.
C22_PageCounterExampleLowercase ==
    (fn = "detect_page" /\ fn_pc = "returned") =>
        /\ (fn_in.lines = <<PageLine, RandomLine>> /\ fn_in.score[PageLine] >= Threshold)
              => fn_out = Text(<<"p", "a", "g", "e", " ", "2", " ", "o", "f", " ", "1", "0">>)
        /\ NoLineMatches(fn_in.lines) => fn_out = NoText

\* C22, amended: detectPageCounter(["Page 2 of 10", "random text"]), the first
\* line scoring at least 70, returns "Page 2 of 10", the line in the letter
\* case it was recognized in; and a list none of whose lines matches the
\* pattern yields none.
C22_PageCounterExample ==
    (fn = "detect_page" /\ fn_pc = "returned") =>
        /\ (fn_in.lines = <<PageLine, RandomLine>> /\ fn_in.score[PageLine] >= Threshold)
              => fn_out = Text(<<"P", "a", "g", "e", " ", "2", " ", "o", "f", " ", "1", "0">>)
        /\ NoLineMatches(fn_in.lines) => fn_out = NoText

\* The page detector has returned on the example list.
C22_Witness ==
    /\ fn = "detect_page" /\ fn_pc = "returned"
    /\ fn_in.lines = <<PageLine, RandomLine>>
    /\ fn_in.score[PageLine] >= Threshold /\ fn_in.score[RandomLine] >= Threshold
    /\ fn_out.found

\* The score of the k-th line, and whether some line reaches the threshold.
ScoreAt(k) == fn_in.score[fn_in.lines[k]]
SomeLineReaches == \E k \in 1..Len(fn_in.lines) : ScoreAt(k) >= Threshold
\* The k-th line has the highest score, and the first line that has it.
IsBest(k) == \A j \in 1..Len(fn_in.lines) : ScoreAt(j) <= ScoreAt(k)
IsFirstBest(k) == IsBest(k) /\ \A j \in 1..(k - 1) : ScoreAt(j) < ScoreAt(k)

TwoLines == Len(fn_in.lines) = 2 /\ fn_in.lines[1] # fn_in.lines[2]
Swapped == <<fn_in.lines[2], fn_in.lines[1]>>

\* C24: on a list of two lines and on the list of the same lines in the other
\* order, detectCase returns the same result and detectPageCounter returns the
\* same result, also when the two lines have the same score.
C24_LineOrderInsignificant ==
    (fn_pc = "returned" /\ TwoLines) =>
        /\ fn = "detect_case" => fn_out = DetectCaseNumber(Swapped, fn_in.score)
        /\ fn = "detect_page" => fn_out = DetectPageNumber(Swapped, fn_in.score)

\* C29: every text detectPageCounter returns matches the pattern 'N of M' the
\* scanner captures (N, M) with.
C29_CounterMatchesScannerPattern ==
    (fn = "detect_page" /\ fn_pc = "returned" /\ fn_out.found)
        => ScanRegexSearch(fn_out.text)

----------------------------------------------------------------------------
\* The scan of a page

\* C25: when the detections of a page are made, extract_text has been called
\* exactly twice for it, first on the left crop with the configured options,
\* then on the right crop with upscale 1 and the other options as configured;
\* before the first call none was made for the page, between the two one; and
\* the configured options are at all times those the run started with.
C25_TwoRecognitionsPerPage ==
    /\ config = DefaultConfig
    /\ pc = "ocr" => ocr_calls = <<>>
    /\ pc = "ocr2" => Len(ocr_calls) = 1
    /\ pc = "page" =>
          ocr_calls = << [page |-> scan_index, crop |-> "left", cfg |-> DefaultConfig],
                         [page |-> scan_index, crop |-> "right",
                          cfg |-> [dpi |-> DefaultConfig.dpi, upscale |-> 10,
                                   contrast |-> DefaultConfig.contrast,
                                   sharpen |-> DefaultConfig.sharpen]] >>

\* Both recognitions of a page after the first of its scan are made, the
\* second with another upscale than the configured one.
C25_Witness ==
    /\ pc = "page" /\ scan_index > current_index
    /\ Len(ocr_calls) = 2
    /\ ocr_calls[2].cfg.upscale # config.upscale

----------------------------------------------------------------------------
\* Summary and files

\* C26: the summary rows are, in order, the rows (label, startPage + 1,
\* endPage + 1) of the emitted chunks, in the data of the run and in the
\* written summary; and a step only ever appends to the rows.
C26_RowsMatchChunks ==
    /\ [](/\ generated_files_data = RowsOf(chunks)
          /\ summary.written => summary.rows = RowsOf(chunks))
    /\ [][/\ Len(generated_files_data') >= Len(generated_files_data)
          /\ SubSeq(generated_files_data', 1, Len(generated_files_data))
                = generated_files_data]_vars

\* A run has ended with a written summary of two rows, the second chunk
\* starting past page 0.
C26_Witness ==
    /\ pc = "done" /\ summary.written
    /\ Len(summary.rows) = 2 /\ Len(chunks) = 2
    /\ chunks[2].start > 0
    /\ summary.rows[2] = <<chunks[2].name, chunks[2].start + 1, chunks[2].end + 1>>

\* A 'progress' event has been pushed.
ProgressEmitted == EvScanChunk \in emitted \/ EvScanPage \in emitted

\* C27: while a page is recognized and decided, the last event pushed is the
\* 'progress' event of that page, with fraction scanIndex/totalPages, and the
\* calls made are calls for that page; and the fraction of the last
\* 'progress' event is at least 0 and less than 1.
C27_ProgressBeforeRecognition ==
    /\ pc \in {"ocr", "ocr2", "page"} =>
          /\ lastEvent = EvScanPage /\ progress = scan_index
          /\ \A k \in 1..Len(ocr_calls) : ocr_calls[k].page = progress
    /\ ProgressEmitted => (0 <= progress /\ progress < totalPages)

\* C28: the scan position changes only by the decision of the page under scan,
\* to the next page, or when a chunk scan starts at the cursor; a call of
\* extract_text is made only for the page under scan, between its 'progress'
\* event and its decision; and the carry and the boundary are decided only
\* with both calls of that page made, or when a chunk resets the carry.
C28_PagesInOrder ==
    [][/\ scan_index' # scan_index
            => \/ pc = "page" /\ pc' = "inner" /\ scan_index' = scan_index + 1
               \/ pc = "outer" /\ pc' = "inner" /\ scan_index' = current_index
       /\ ocr_calls' # ocr_calls
            => \/ pc = "emit" /\ ocr_calls' = <<>>
               \/ /\ pc \in {"ocr", "ocr2"} /\ Len(ocr_calls') = Len(ocr_calls) + 1
                  /\ ocr_calls'[Len(ocr_calls')].page = scan_index
       /\ (carried_case' # carried_case \/ carried_page' # carried_page
           \/ pattern_found' # pattern_found)
            => \/ /\ pc = "page" /\ Len(ocr_calls) = 2
                  /\ \A k \in 1..2 : ocr_calls[k].page = scan_index
               \/ pc = "found" \/ pc = "outer"]_vars

\* The first call for the second page of a scan is about to be made, the
\* first page having set the carry.
C28_Witness ==
    /\ pc = "ocr" /\ scan_index = current_index + 1
    /\ IsCase(carried_case) /\ ocr_calls = <<>>

\* C30: no two emitted chunks have the same output file: their names differ.
C30_DistinctChunkFiles ==
    \A i, j \in 1..Len(chunks) : i # j => chunks[i].name # chunks[j].name

----------------------------------------------------------------------------
\* Response to cancellation

\* The number of positions the worker can still pass once the stop event is
\* set: the rest of the page under scan, the chunk it may resolve, one loop
\* test, the summary and the final event.
StepsLeft(p) ==
    CASE p = "start" -> 10
      [] p = "emit" -> 9
      [] p = "ocr" -> 8
      [] p = "ocr2" -> 7
      [] p = "page" -> 6
      [] p = "found" -> 5
      [] p = "saving" -> 4
      [] p \in {"outer", "inner"} -> 3
      [] p = "close" -> 2
      [] p = "fin" -> 1
      [] OTHER -> 0

\* C31: with the stop event set, every step of the worker moves it closer to
\* the end of the run: it passes the recognition of a page at most once more
\* (the page whose iteration had begun), resolves at most one more chunk, and
\* the next loop test it reaches ends the scan. (A step to "start" is the start
\* of another worker, with a stop event of its own.)
C31_BoundedResponseToCancel ==
    [][stop_event /\ pc' # pc /\ pc' # "start"
         => /\ StepsLeft(pc') < StepsLeft(pc)
            /\ pc \in {"outer", "inner"} => pc' \in {"close", "killed"}]_vars

\* A loop test read the stop event as set and ended the scan with pages left,
\* after one chunk, resolved on page 0, was saved.
C31_Witness ==
    /\ stop_event /\ cancel_seen /\ pc = "close" /\ outcome = "cancelled"
    /\ Len(chunks) = 1 /\ chunks[1].file = "saved" /\ chunks[1].anchor = 0
    /\ current_index = final_end_idx /\ current_index < totalPages

----------------------------------------------------------------------------
\* The host at the end of a run

\* C32: once the stop event is set and the worker has ended with the cancelled
\* message, the host eventually stops the status timer and shows another
\* screen than the processing screen, unless the user closes the window.
C32_HostLeavesProcessingScreen ==
    (stop_event /\ pc = "done" /\ lastEvent = EvCancelled)
        ~> (~timer /\ screen # "processing") \/ host # "open"

\* The events that end a run: 'complete', the cancelled message, an 'error'.
IsTerminal(e) == e.type \in {"complete", "error"} \/ e = EvCancelled

\* C33: a run that has ended has emitted exactly one terminal event, as its
\* last event; no run emits both an 'error' and 'complete'; and the complete
\* screen is never shown after the error of the same run was handled (which
\* forgets the selected file).
C33_OneTerminalMilestone ==
    /\ pc = "done" => /\ IsTerminal(lastEvent)
                      /\ Cardinality({e \in emitted : IsTerminal(e)}) = 1
    /\ ~(ErrorEmitted /\ EvComplete \in emitted)
    /\ screen = "complete" => selected_file

\* C34: start_processing makes a worker process only when no worker process
\* is alive; while one is alive the window shows the processing screen, which
\* has no start button.
C34_AtMostOneWorker ==
    /\ [][screen = "output" /\ screen' = "processing" => ~WorkerAlive]_vars
    /\ [](WorkerAlive => screen = "processing")

\* A worker has run and ended, the user has started over and has selected a
\* file and a folder again: the start button can be pressed.
C34_Witness ==
    /\ pc = "done" /\ host = "open" /\ screen = "output"
    /\ start_btn /\ selected_file /\ selected_folder

----------------------------------------------------------------------------
\* Pages of a run

\* C35: the page under scan has an index in [0, totalPages) that is greater
\* than the page on which any chunk of the run was resolved (and so, the scan
\* of a chunk going up one page at a time, than every page scanned before).
C35_EachPageOnce ==
    pc \in {"emit", "ocr", "ocr2", "page"}
        => /\ 0 <= scan_index /\ scan_index < totalPages
           /\ \A i \in 1..Len(chunks) : chunks[i].anchor < scan_index

----------------------------------------------------------------------------
\* normalize applied to its own results

BeginsWithOne(result) == Len(result) >= 3 /\ result[3] = "1"

AfterPrefix(result) == SubSeq(result, 3, Len(result))

\* C37: every result of normalize begins with "I-"; what follows consists of
\* digits and '-' only and is either empty (the placeholder) or splits on '-'
\* into segments none of which is empty, the first and every one between the
\* first and the last of at most 3 characters.
C37_ResultShape ==
    (fn = "normalize" /\ fn_pc = "returned") =>
        /\ Len(fn_out) >= 2 /\ fn_out[1] = "I" /\ fn_out[2] = "-"
        /\ \A i \in 3..Len(fn_out) : fn_out[i] \in Digits \cup {"-"}
        /\ \/ AfterPrefix(fn_out) = <<>>
           \/ LET segs == SplitOn(AfterPrefix(fn_out), "-")
              IN /\ \A i \in 1..Len(segs) : Len(segs[i]) > 0
                 /\ Len(segs[1]) <= 3
                 /\ \A i \in 2..(Len(segs) - 1) : Len(segs[i]) <= 3

\* "CASE NUMBER: 123-4567-89" has been normalized: the segment "4567" between
\* the first and the last is cut to "456", the last is whole.
C37_Witness ==
    /\ fn = "normalize" /\ fn_pc = "returned" /\ fn_in = ExampleRaw
    /\ fn_out = <<"I", "-", "2", "3", "-", "4", "5", "6", "-", "8", "9">>

====
